---- MODULE Spec2Model ----
(***************************************************************************)
(* A model of the vga16fb renderer plugin                                  *)
(* (src/plugins/renderers/vga16fb/plugin.c): the palette quantizer, the    *)
(* planar flush, the activation flag and the device lifecycle.             *)
(*                                                                         *)
(* One action models one whole entry point of the plugin.  The hardware    *)
(* operations an entry point issues (register writes, colour-map uploads,  *)
(* stores to device memory, console mode changes) and the classifications  *)
(* it makes are recorded, in program order, in hwlog, which always holds   *)
(* the trace of the LAST entry point that ran.                             *)
(***************************************************************************)
EXTENDS Integers, Sequences, FiniteSets

VARIABLES
  device_fd,       \* backend->device_fd
  terminal_open,   \* the ply_terminal_t is open
  terminal_active, \* ply_terminal_is_active (backend->terminal)
  watching,        \* on_active_vt_changed is registered with the terminal
  is_active,       \* backend->is_active
  map_address,     \* head->map_address: "MAP_FAILED" or "mapped"
  area,            \* head->area
  row_stride,      \* backend->row_stride
  size,            \* head->size
  pixel_buffer,    \* head->pixel_buffer: NullBuffer or the argb32 data
  updated_areas,   \* the pixel buffer's damaged region: a set of rectangles
  head,            \* head->red, green, blue, palette_size
  hwlog,           \* trace of the last entry point
  last_op,         \* name of the last entry point
  last_ret,        \* its boolean result (TRUE for void entry points)
  proc,            \* "run", "rejected" (open_device failed), "crashed"
  draws,           \* number of client drawing operations so far
  q_seen           \* per colour: index returned since the last allocation

vars == << device_fd, terminal_open, terminal_active, watching,
           is_active, map_address, area, row_stride, size, pixel_buffer,
           updated_areas, head, hwlog, last_op, last_ret, proc,
           draws, q_seen >>

(***************************************************************************)
(* Program constants                                                       *)
(***************************************************************************)
PaletteMax == 16
FdOpened == 3

\* a slip: the scan started at the coarser precision
FirstShift_Seven == 6 + 1

\* for (shift = 6; shift < 8; shift++)
FirstShift == 6
Planes == 16

(***************************************************************************)
(* Bounds of the model                                                     *)
(***************************************************************************)
MaxDraws == 1
MaxPrefill == 16

(***************************************************************************)
(* Arithmetic helpers: C shifts and masks on unsigned values               *)
(***************************************************************************)
Pow2(n) == << 1, 2, 4, 8, 16, 32, 64, 128, 256, 512, 1024, 2048, 4096, 8192,
             16384, 32768, 65536 >>[n + 1]

Shr(v, n) == v \div Pow2(n)

\* (uint16_t) (v << 8)
Shl8u16(v) == (v * 256) % 65536

\* m | bit, for bit a power of two
BitOr(m, bit) == IF (m \div bit) % 2 = 1 THEN m ELSE m + bit

HasBit(m, bit) == (m \div bit) % 2 = 1

\* 0x80 >> (x % 8)
PixelBit(x) == Shr(128, x % 8)

Min(S) == CHOOSE v \in S : \A w \in S : v <= w

(***************************************************************************)
(* Colours.  A pixel is an ARGB32 value; the alpha byte is nonzero so that *)
(* the channel extraction has something to mask off.                       *)
(***************************************************************************)
ARGB(r, g, b) == 64 * 16777216 + r * 65536 + g * 256 + b

\* k-th colour of a family lying in pairwise distinct top-two-bit buckets
Gradient(k) == ARGB((k % 4) * 64, ((k \div 4) % 4) * 64, (k \div 16) * 64)

Black == ARGB(0, 0, 0)
NearBlack == ARGB(10, 5, 3)
Blue == ARGB(0, 0, 255)

(***************************************************************************)
(* The palette of a head                                                   *)
(***************************************************************************)
Slots == 0 .. (PaletteMax - 1)

\* initialize_head: memset of the three channel arrays, palette_size = 0
EmptyPalette ==
  [red |-> [i \in Slots |-> 0], green |-> [i \in Slots |-> 0],
   blue |-> [i \in Slots |-> 0], palette_size |-> 0]

\* the comparison of one palette slot with a colour, at one precision
SlotMatches(h, index, shift, r, g, b) ==
  /\ Shr(h.red[index], 8 + shift) = Shr(r, shift)
  /\ Shr(h.green[index], 8 + shift) = Shr(g, shift)
  /\ Shr(h.blue[index], 8 + shift) = Shr(b, shift)

\* a slip: the scan started at the second slot
ScanPalette_FromOne(h, shift, r, g, b) ==
  LET hits == {i \in 1 .. (h.palette_size - 1) : SlotMatches(h, i, shift, r, g, b)}
  IN  IF hits = {} THEN -1 ELSE Min(hits)

\* the inner for loop: the first slot, in index order, that matches; -1: none
ScanPalette(h, shift, r, g, b) ==
  LET hits == {i \in 0 .. (h.palette_size - 1) : SlotMatches(h, i, shift, r, g, b)}
  IN  IF hits = {} THEN -1 ELSE Min(hits)

\* a slip: the channels stored without the shift to 16 bits
AllocateSlot_NoShift(h, r, g, b) ==
  [red |-> [h.red EXCEPT ![h.palette_size] = r],
   green |-> [h.green EXCEPT ![h.palette_size] = g],
   blue |-> [h.blue EXCEPT ![h.palette_size] = b],
   palette_size |-> h.palette_size + 1]

\* a slip: the new colour also written over the first slot
AllocateSlot_OverFirst(h, r, g, b) ==
  [red |-> [h.red EXCEPT ![h.palette_size] = Shl8u16(r), ![0] = Shl8u16(r)],
   green |-> [h.green EXCEPT ![h.palette_size] = Shl8u16(g), ![0] = Shl8u16(g)],
   blue |-> [h.blue EXCEPT ![h.palette_size] = Shl8u16(b), ![0] = Shl8u16(b)],
   palette_size |-> h.palette_size + 1]

\* the allocation of a new slot: index = palette_size++, channels << 8
AllocateSlot(h, r, g, b) ==
  [red |-> [h.red EXCEPT ![h.palette_size] = Shl8u16(r)],
   green |-> [h.green EXCEPT ![h.palette_size] = Shl8u16(g)],
   blue |-> [h.blue EXCEPT ![h.palette_size] = Shl8u16(b)],
   palette_size |-> h.palette_size + 1]

\* a slip: the capacity test off by one
HasFreeSlot_OffByOne(h) == h.palette_size <= PaletteMax

\* whether the palette has room for one more slot
HasFreeSlot(h) == h.palette_size < PaletteMax

\* a slip: the fallback one past the last slot
FallbackIndex_PastEnd(h) == h.palette_size

\* a slip: the first slot (the background colour) as the fallback
FallbackIndex_First(h) == 0

\* the value returned when both precisions are exhausted; on an empty
\* palette the unsigned 0 - 1 wraps to UINT_MAX, which -1 stands for here
FallbackIndex(h) == h.palette_size - 1

\* a slip: a slot allocated without the scan of the palette
ClassifyFrom_NoScan(h, shift, r, g, b) ==
  IF HasFreeSlot(h)
  THEN [head |-> AllocateSlot(h, r, g, b), index |-> h.palette_size, alloc |-> TRUE]
  ELSE [head |-> h, index |-> FallbackIndex(h), alloc |-> FALSE]

\* one pass of the outer loop and what follows it
RECURSIVE ClassifyFrom(_, _, _, _, _)
ClassifyFrom(h, shift, r, g, b) ==
  IF shift >= 8
  THEN [head |-> h, index |-> FallbackIndex(h), alloc |-> FALSE]
  ELSE LET hit == ScanPalette(h, shift, r, g, b)
       IN  IF hit # -1
           THEN [head |-> h, index |-> hit, alloc |-> FALSE]
           ELSE IF HasFreeSlot(h)
                THEN [head |-> AllocateSlot(h, r, g, b),
                      index |-> h.palette_size, alloc |-> TRUE]
                ELSE ClassifyFrom(h, shift + 1, r, g, b)

\* argb32_pixel_value_to_color_index, without its set_palette call:
\* the new palette, the index returned, and whether a slot was allocated
argb32_pixel_value_to_color_index(h, pixel_value) ==
  ClassifyFrom(h, FirstShift,
               Shr(pixel_value, 16) % 256,
               Shr(pixel_value, 8) % 256,
               pixel_value % 256)

\* a slip: only the newest entry uploaded
set_palette_LastOnly(fd, h) ==
  IF fd < 0 \/ h.palette_size = 0
  THEN << >>
  ELSE << [op |-> "cmap", fd |-> fd, start |-> h.palette_size - 1, len |-> 1,
           red |-> h.red, green |-> h.green, blue |-> h.blue] >>

\* set_palette: the FBIOPUTCMAP ioctl it issues (start 0, len palette_size,
\* the three channel arrays), or nothing on its two early returns
set_palette(fd, h) ==
  IF fd < 0 \/ h.palette_size = 0
  THEN << >>
  ELSE << [op |-> "cmap", fd |-> fd, start |-> 0, len |-> h.palette_size,
           red |-> h.red, green |-> h.green, blue |-> h.blue] >>

(***************************************************************************)
(* Rectangles and the damaged region of the pixel buffer                   *)
(***************************************************************************)
Rect(x, y, w, h) == [x |-> x, y |-> y, width |-> w, height |-> h]

Covers(q, r) ==
  /\ q.x <= r.x /\ r.x + r.width <= q.x + q.width
  /\ q.y <= r.y /\ r.y + r.height <= q.y + q.height

PixelsOf(r) ==
  {<< x, y >> : x \in r.x .. (r.x + r.width - 1), y \in r.y .. (r.y + r.height - 1)}

\* ply_region_add_rectangle, for rectangles that are pairwise nested or
\* disjoint (the only ones the model draws): an empty rectangle and one
\* already covered add nothing; a new one absorbs those it covers
ply_region_add_rectangle(region, r) ==
  IF r.width = 0 \/ r.height = 0 \/ (\E q \in region : Covers(q, r))
  THEN region
  ELSE {q \in region : ~Covers(r, q)} \cup {r}

\* ply_region_clear
ply_region_clear(region) == {}

\* ply_region_get_sorted_rectangle_list: top to bottom, then left to right
RECURSIVE ply_region_get_sorted_rectangle_list(_)
ply_region_get_sorted_rectangle_list(region) ==
  IF region = {}
  THEN << >>
  ELSE LET first == CHOOSE r \in region :
                      \A q \in region : r.y < q.y \/ (r.y = q.y /\ r.x <= q.x)
       IN  << first >> \o ply_region_get_sorted_rectangle_list(region \ {first})

(***************************************************************************)
(* flush_area.  st is the running state of a flush:                        *)
(*   head, log, crashed                                                    *)
(* env is what the flush reads and does not change:                        *)
(*   fd, rs (row_stride), width, size, mapped, pixels,                     *)
(*   garbage (the byte a read past the end of mask yields),                *)
(*   trap (whether a store outside the mapped memory faults)               *)
(***************************************************************************)
MaskLen(env) == env.rs * Planes

\* memset (mask, 0, backend->row_stride * 16)
ZeroMask(env) == [i \in 0 .. (MaskLen(env) - 1) |-> 0]

\* the byte of mask that holds the bit of column x in the plane of a slot
MaskIndex(env, index, x) == index * env.rs + x \div 8

\* mask[index * backend->row_stride + x / 8] |= (0x80 >> (x % 8))
MarkPixel(mask, env, index, x) ==
  LET i == MaskIndex(env, index, x)
  IN  IF i \in DOMAIN mask THEN [mask EXCEPT ![i] = BitOr(@, PixelBit(x))] ELSE mask

\* one iteration of the classification loop: the pixel is read, classified
\* (a new slot is uploaded at once), and its bit is set in the mask of its slot
ClassifyPixel(st, env, mask, y, x) ==
  LET pixel == env.pixels[x + y * env.width + 1]
      res == argb32_pixel_value_to_color_index(st.head, pixel)
      ops == (IF res.alloc THEN set_palette(env.fd, res.head) ELSE << >>)
             \o << [op |-> "classify", x |-> x, y |-> y, pixel |-> pixel,
                    index |-> res.index, alloc |-> res.alloc] >>
  IN  [st |-> [st EXCEPT !.head = res.head, !.log = st.log \o ops],
       mask |-> MarkPixel(mask, env, res.index, x)]

\* the classification loop of one row: for (x = x1; x < x2; x++), the
\* iterations in order, written as the first half of the columns and then
\* the second; the test on the log of the first half has it evaluated
\* before the second half starts, which keeps the evaluation shallow
RECURSIVE ClassifyRow(_, _, _, _, _, _)
ClassifyRow(st, env, mask, y, x, x2) ==
  IF x >= x2
  THEN [st |-> st, mask |-> mask]
  ELSE IF x + 1 = x2
       THEN ClassifyPixel(st, env, mask, y, x)
       ELSE LET mid == x + ((x2 - x) \div 2)
                left == ClassifyRow(st, env, mask, y, x, mid)
            IN  IF Len(left.st.log) >= 0
                THEN ClassifyRow(left.st, env, left.mask, y, mid, x2)
                ELSE left

\* mask[c * backend->row_stride + b]
MaskByte(mask, env, c, b) ==
  LET i == c * env.rs + b
  IN  IF i < MaskLen(env) THEN mask[i] ELSE env.garbage

\* the last byte offset of the store loop: b < x2 / 8 + 1
LastByte(x2) == x2 \div 8

\* p = head->map_address + y * backend->row_stride + b
StoreOffset(env, y, b) == y * env.rs + b

\* a slip: the two register writes in the other order
StoreOps_MaskFirst(env, y, c, b, m) ==
  << [op |-> "bit_mask", value |-> m],
     [op |-> "set_reset", value |-> c],
     [op |-> "store", offset |-> y * env.rs + b, y |-> y, b |-> b,
      c |-> c, mask |-> m, or_value |-> 1, mapped |-> env.mapped,
      inside |-> y * env.rs + b < env.size] >>

\* vga_set_reset (c); vga_bit_mask (m); *p |= 1
StoreOps(env, y, c, b, m) ==
  << [op |-> "set_reset", value |-> c],
     [op |-> "bit_mask", value |-> m],
     [op |-> "store", offset |-> StoreOffset(env, y, b), y |-> y, b |-> b,
      c |-> c, mask |-> m, or_value |-> 1, mapped |-> env.mapped,
      inside |-> StoreOffset(env, y, b) < env.size] >>

FaultOps(env, y, c, b, m) ==
  << [op |-> "set_reset", value |-> c],
     [op |-> "bit_mask", value |-> m],
     [op |-> "fault", offset |-> StoreOffset(env, y, b), mapped |-> env.mapped] >>

\* the (slot, byte) pairs of the store loops of one row, in the order the
\* loops visit them: for c in 0..15, for b in x1/8 .. x2/8
StorePairs(x1, x2) ==
  LET first == x1 \div 8
      count == LastByte(x2) + 1 - first
  IN  [k \in 1 .. (Planes * count) |->
         [c |-> (k - 1) \div count, b |-> first + ((k - 1) % count)]]

\* mask[c * backend->row_stride + b] read at or past the end of the
\* buffer malloc'd for 16 * row_stride bytes
ReadPastMask(env, c, b) ==
  [op |-> "read_past_mask", index |-> c * env.rs + b, len |-> MaskLen(env)]

\* a place of the log left empty
NoOp == [op |-> "none"]

IsLogged(e) == e.op # "none"

\* the store loops of one row: every pair reads its mask byte, and stores
\* when the byte is not zero; a store outside the mapped memory that faults
\* ends the run
StoreRow(st, env, mask, y, x1, x2) ==
  LET pairs == StorePairs(x1, x2)
      MaskOf(k) == MaskByte(mask, env, pairs[k].c, pairs[k].b)
      live == {k \in DOMAIN pairs : MaskOf(k) # 0}
      past == {k \in DOMAIN pairs : pairs[k].c * env.rs + pairs[k].b >= MaskLen(env)}
      wild == {k \in live :
                 ~(env.mapped /\ StoreOffset(env, y, pairs[k].b) < env.size)}
      stop == IF env.trap /\ wild # {} THEN Min(wild) ELSE Len(pairs) + 1
      done == {k \in live \cup past : k <= stop}
      Nth(i) == CHOOSE k \in done : Cardinality({j \in done : j <= k}) = i
      OpsAt(k) == IF k = stop
                  THEN FaultOps(env, y, pairs[k].c, pairs[k].b, MaskOf(k))
                  ELSE StoreOps(env, y, pairs[k].c, pairs[k].b, MaskOf(k))
      raw == [i \in 1 .. (4 * Cardinality(done)) |->
                LET k == Nth(((i - 1) \div 4) + 1)
                    j == (i - 1) % 4
                IN  IF j = 0
                    THEN IF k \in past
                         THEN ReadPastMask(env, pairs[k].c, pairs[k].b)
                         ELSE NoOp
                    ELSE IF k \in live THEN OpsAt(k)[j] ELSE NoOp]
  IN  [st EXCEPT !.log = st.log \o SelectSeq(raw, IsLogged),
                 !.crashed = (stop <= Len(pairs))]

\* the row loop: for (y = y1; y < y2; y++)
RECURSIVE FlushRows(_, _, _, _)
FlushRows(st, env, r, y) ==
  IF y >= r.y + r.height \/ st.crashed
  THEN st
  ELSE LET cl == ClassifyRow(st, env, ZeroMask(env), y, r.x, r.x + r.width)
           st2 == StoreRow(cl.st, env, cl.mask, y, r.x, r.x + r.width)
       IN  FlushRows(st2, env, r, y + 1)

flush_area(st, env, area_to_flush) == FlushRows(st, env, area_to_flush, area_to_flush.y)

\* the loop of flush_head over the sorted rectangle list
RECURSIVE FlushAreas(_, _, _)
FlushAreas(st, env, areas) ==
  IF areas = << >> \/ st.crashed
  THEN st
  ELSE FlushAreas(flush_area(st, env, Head(areas)), env, Tail(areas))

\* ply_terminal_set_mode (GRAPHICS), ply_terminal_set_unbuffered_input, and
\* the reset of the VGA registers to basic values
BaselineOps ==
  << [op |-> "set_mode_graphics"], [op |-> "set_unbuffered_input"],
     [op |-> "enable_set_reset", value |-> 15],
     [op |-> "mode", value |-> 0],
     [op |-> "data_rotate", value |-> 0],
     [op |-> "map_mask", value |-> 255] >>

\* a slip: the activation test left out
FlushGate_Always(active) == TRUE

\* the activation test at the top of flush_head
FlushGate(active) == active

\* a slip: the damaged region left as it is
ClearDamage_Skipped(region) == region

\* the last statement of flush_head: ply_region_clear (updated_region)
ClearDamage(region) == ply_region_clear(region)

\* flush_head: the state after it and whether the damaged region was cleared
flush_head(active, st, env, region) ==
  IF ~FlushGate(active)
  THEN [st |-> st, region |-> region]
  ELSE LET st1 == [st EXCEPT !.log = st.log \o BaselineOps \o set_palette(env.fd, st.head)]
           st2 == FlushAreas(st1, env, ply_region_get_sorted_rectangle_list(region))
       IN  [st |-> st2,
            region |-> IF st2.crashed THEN region ELSE ClearDamage(region)]

\* the log entry of the ply_region_add_rectangle call of a redraw, with
\* the damaged region it found
DamageMark(region, head_area) ==
  << [op |-> "add_rectangle", rect |-> head_area, before |-> region] >>

\* a slip: the flush without the damage mark
ply_renderer_head_redraw_NoMark(active, st, env, region, head_area) ==
  flush_head(active, st, env, region)

\* ply_renderer_head_redraw: damage the whole head area, then flush
ply_renderer_head_redraw(active, st, env, region, head_area) ==
  flush_head(active, [st EXCEPT !.log = st.log \o DamageMark(region, head_area)],
             env, ply_region_add_rectangle(region, head_area))

(***************************************************************************)
(* The environment: device geometries, client drawing, undefined reads     *)
(***************************************************************************)
\* what FBIOGET_VSCREENINFO / FBIOGET_FSCREENINFO may report:
\* xres, yres, line_length (xoffset = yoffset = 0)
Geometries ==
  { [w |-> 16, h |-> 1, rs |-> 2],
    [w |-> 8, h |-> 2, rs |-> 1],
    [w |-> 12, h |-> 2, rs |-> 2] }

\* the rectangles a client draws into: pairwise nested or disjoint
DrawRects(a) ==
  { Rect(0, 0, 3, 1), Rect(3, 0, 5, a.height), Rect(0, 0, a.width, a.height) }
  \cup (IF a.width > 9 THEN {Rect(9, 0, a.width - 9, a.height)} ELSE {})

Patterns == {"gradient", "blue"}

PatternPixel(p, x, y) ==
  IF p = "gradient" THEN Gradient(x % 16) ELSE Blue

\* the bytes a read past the end of the mask buffer may yield
GarbageBytes == {0, 255}

ZeroRect == Rect(0, 0, 0, 0)

\* head->pixel_buffer == NULL; a buffer is the sequence of its argb32
\* words, word i of the C array being element i + 1
NullBuffer == << >>

NoneSeen == [p \in {Black, NearBlack, Gradient(15), Gradient(16), Blue} |-> -1]

QPixels == DOMAIN NoneSeen

(***************************************************************************)
(* The state after create_backend: calloc, then map_address = MAP_FAILED   *)
(***************************************************************************)
Init ==
  /\ device_fd = 0
  /\ terminal_open = FALSE
  /\ terminal_active \in BOOLEAN
  /\ watching = FALSE
  /\ is_active = FALSE
  /\ map_address = "MAP_FAILED"
  /\ area = ZeroRect
  /\ row_stride = 0
  /\ size = 0
  /\ pixel_buffer = NullBuffer
  /\ updated_areas = {}
  /\ head = EmptyPalette
  /\ hwlog = << >>
  /\ last_op = "create_backend"
  /\ last_ret = TRUE
  /\ proc = "run"
  /\ draws = 0
  /\ q_seen = NoneSeen

Running == proc = "run"

\* the running state of a flush that starts in the current state
FlushStart(log) == [head |-> head, log |-> log, crashed |-> FALSE]

FlushEnv(mapped, garbage, trap) ==
  [fd |-> device_fd, rs |-> row_stride, width |-> area.width, size |-> size,
   mapped |-> mapped, pixels |-> pixel_buffer, garbage |-> garbage, trap |-> trap]

\* what a finished (or faulted) flush leaves behind
FlushOutcome(res) ==
  /\ head' = res.st.head
  /\ hwlog' = res.st.log
  /\ updated_areas' = res.region
  /\ proc' = IF res.st.crashed THEN "crashed" ELSE proc

\* a slip: the redraw without the test of the mapping
RedrawGate_Always(mapped) == TRUE

\* the test of activate before it redraws
RedrawGate(mapped) == mapped

\* activate, entered with the mapping as it stands when it is called
activate(mapped, log, garbage, trap) ==
  /\ is_active' = TRUE
  /\ IF RedrawGate(mapped)
     THEN IF pixel_buffer = NullBuffer
          THEN \* ply_pixel_buffer_get_updated_areas (NULL): a null dereference
               /\ hwlog' = log \o << [op |-> "fault", offset |-> 0, mapped |-> mapped] >>
               /\ proc' = "crashed"
               /\ UNCHANGED << head, updated_areas >>
          ELSE FlushOutcome(ply_renderer_head_redraw(TRUE, FlushStart(log),
                                                     FlushEnv(mapped, garbage, trap),
                                                     updated_areas, area))
     ELSE /\ hwlog' = log
          /\ UNCHANGED << head, updated_areas, proc >>

\* a slip: the flag left as it is
deactivate_KeepsFlag ==
  /\ is_active' = is_active
  /\ hwlog' = << >>
  /\ UNCHANGED << head, updated_areas, proc >>

deactivate ==
  /\ is_active' = FALSE
  /\ hwlog' = << >>
  /\ UNCHANGED << head, updated_areas, proc >>

IsMapped == map_address # "MAP_FAILED"

\* initialize_head: a new pixel buffer filled with opaque black (the fill
\* damages the whole buffer), the palette zeroed
initialize_head(w, h) ==
  /\ pixel_buffer' = [i \in 1 .. (w * h) |-> Black]
  /\ updated_areas' = ply_region_add_rectangle({}, Rect(0, 0, w, h))
  /\ head' = EmptyPalette

\* the damaged region ply_renderer_head_redraw flushes
AllDamage == ply_region_add_rectangle(updated_areas, area)

\* whether the store loop of some rectangle of the region reads past the
\* end of mask (plane 15, byte row_stride), and whether a flush of the
\* region can store outside the mapped memory; the undefined outcomes are
\* enumerated only for the flushes that have them
ReadsPastMask(region) ==
  \E r \in region : LastByte(r.x + r.width) >= row_stride

StoresOutside(mapped, region) ==
  \/ ~mapped
  \/ \E r \in region : /\ LastByte(r.x + r.width) >= row_stride
                         /\ r.y + r.height >= area.height

Garbage(active, region) ==
  IF active /\ ReadsPastMask(region) THEN GarbageBytes ELSE {0}

Traps(active, mapped, region) ==
  IF active /\ StoresOutside(mapped, region) THEN BOOLEAN ELSE {FALSE}

\* ioperm (VGA_REGS_BASE, VGA_REGS_LEN, 1) and, once it is granted, mmap
MapOps(granted, mapped) ==
  << [op |-> "ioperm", ok |-> granted] >>
  \o (IF granted THEN << [op |-> "mmap", ok |-> mapped] >> ELSE << >>)

\* a slip: the console switch not requested
RequestVt_Omitted == << >>

\* ply_terminal_activate_vt (backend->terminal)
RequestVt == << [op |-> "activate_vt"] >>

(***************************************************************************)
(* The entry points of the plugin interface                                *)
(***************************************************************************)
Activate ==
  /\ Running
  /\ \E garbage \in Garbage(IsMapped, AllDamage), trap \in Traps(TRUE, IsMapped, AllDamage) :
       activate(IsMapped, << >>, garbage, trap)
  /\ last_op' = "activate"
  /\ last_ret' = TRUE
  /\ UNCHANGED << device_fd, terminal_open, terminal_active, watching,
                  map_address, area, row_stride, size, pixel_buffer, draws, q_seen >>

Deactivate ==
  /\ Running
  /\ deactivate
  /\ last_op' = "deactivate"
  /\ last_ret' = TRUE
  /\ UNCHANGED << device_fd, terminal_open, terminal_active, watching,
                  map_address, area, row_stride, size, pixel_buffer, draws, q_seen >>

\* the terminal reports a change of the active console to the watch
on_active_vt_changed ==
  /\ Running
  /\ watching
  /\ \E now \in BOOLEAN :
       /\ terminal_active' = now
       /\ IF now
          THEN \E garbage \in Garbage(IsMapped, AllDamage),
                  trap \in Traps(TRUE, IsMapped, AllDamage) :
                 activate(IsMapped, << >>, garbage, trap)
          ELSE deactivate
  /\ last_op' = "on_active_vt_changed"
  /\ last_ret' = TRUE
  /\ UNCHANGED << device_fd, terminal_open, watching,
                  map_address, area, row_stride, size, pixel_buffer, draws, q_seen >>

open_device ==
  /\ Running
  /\ ~watching
  /\ \E outcome \in {"open_fails", "terminal_fails", "not_vt", "ok"} :
       /\ device_fd' = IF outcome = "open_fails" THEN -1 ELSE FdOpened
       /\ terminal_open' = IF outcome = "ok" THEN TRUE
                           ELSE IF outcome = "not_vt" THEN FALSE ELSE terminal_open
       /\ watching' = (outcome = "ok")
       /\ last_ret' = (outcome = "ok")
       /\ proc' = IF outcome = "ok" THEN proc ELSE "rejected"
  /\ last_op' = "open_device"
  /\ hwlog' = << >>
  /\ UNCHANGED << terminal_active, is_active, map_address, area,
                  row_stride, size, pixel_buffer, updated_areas, head,
                  draws, q_seen >>

close_device ==
  /\ Running
  /\ watching
  /\ watching' = FALSE
  /\ pixel_buffer' = NullBuffer
  /\ updated_areas' = {}
  /\ device_fd' = -1
  /\ area' = ZeroRect
  /\ last_op' = "close_device"
  /\ last_ret' = TRUE
  /\ hwlog' = << >>
  /\ UNCHANGED << terminal_open, terminal_active, is_active,
                  map_address, row_stride, size, head, proc, draws, q_seen >>

query_device ==
  /\ Running
  /\ watching
  /\ device_fd >= 0
  /\ pixel_buffer = NullBuffer
  /\ \/ /\ last_ret' = FALSE
        /\ UNCHANGED << area, row_stride, size, pixel_buffer, updated_areas, head >>
     \/ \E g \in Geometries :
          /\ area' = Rect(0, 0, g.w, g.h)
          /\ row_stride' = g.rs
          /\ size' = g.h * g.rs
          /\ initialize_head(g.w, g.h)
          /\ last_ret' = TRUE
  /\ last_op' = "query_device"
  /\ hwlog' = << >>
  /\ UNCHANGED << device_fd, terminal_open, terminal_active, watching,
                  is_active, map_address, proc, draws, q_seen >>

map_to_device ==
  /\ Running
  /\ watching
  /\ device_fd >= 0
  /\ size > 0
  /\ ~IsMapped
  /\ \/ /\ last_ret' = FALSE
        /\ \E granted \in BOOLEAN : hwlog' = MapOps(granted, FALSE)
        /\ UNCHANGED << is_active, map_address, head, updated_areas, proc >>
     \/ /\ last_ret' = TRUE
        /\ map_address' = "mapped"
        /\ IF terminal_active
           THEN \E garbage \in Garbage(TRUE, AllDamage), trap \in Traps(TRUE, TRUE, AllDamage) :
                  activate(TRUE, MapOps(TRUE, TRUE), garbage, trap)
           ELSE /\ hwlog' = MapOps(TRUE, TRUE) \o RequestVt
                /\ UNCHANGED << is_active, head, updated_areas, proc >>
  /\ last_op' = "map_to_device"
  /\ UNCHANGED << device_fd, terminal_open, terminal_active, watching, area,
                  row_stride, size, pixel_buffer, draws, q_seen >>

unmap_from_device ==
  /\ Running
  /\ watching
  /\ map_address' = "MAP_FAILED"
  /\ last_op' = "unmap_from_device"
  /\ last_ret' = TRUE
  /\ hwlog' = << >>
  /\ UNCHANGED << device_fd, terminal_open, terminal_active, watching,
                  is_active, area, row_stride, size, pixel_buffer, updated_areas,
                  head, proc, draws, q_seen >>

\* flush_head, called with the head that get_heads lists
FlushHead ==
  /\ Running
  /\ pixel_buffer # NullBuffer
  /\ \E garbage \in Garbage(is_active, updated_areas),
        trap \in Traps(is_active, IsMapped, updated_areas) :
       FlushOutcome(flush_head(is_active, FlushStart(<< >>),
                               FlushEnv(IsMapped, garbage, trap), updated_areas))
  /\ last_op' = "flush_head"
  /\ last_ret' = TRUE
  /\ UNCHANGED << device_fd, terminal_open, terminal_active, watching,
                  is_active, map_address, area, row_stride, size, pixel_buffer,
                  draws, q_seen >>

\* a client of get_buffer_for_head fills a rectangle of the pixel buffer
Draw ==
  /\ Running
  /\ pixel_buffer # NullBuffer
  /\ draws < MaxDraws
  /\ \E r \in DrawRects(area), p \in Patterns :
       /\ pixel_buffer' = [i \in DOMAIN pixel_buffer |->
                             IF << (i - 1) % area.width, (i - 1) \div area.width >> \in PixelsOf(r)
                             THEN PatternPixel(p, (i - 1) % area.width, (i - 1) \div area.width)
                             ELSE pixel_buffer[i]]
       /\ updated_areas' = ply_region_add_rectangle(updated_areas, r)
  /\ draws' = draws + 1
  /\ last_op' = "draw"
  /\ last_ret' = TRUE
  /\ hwlog' = << >>
  /\ UNCHANGED << device_fd, terminal_open, terminal_active, watching,
                  is_active, map_address, area, row_stride, size, head,
                  proc, q_seen >>

Next ==
  \/ open_device
  \/ query_device
  \/ map_to_device
  \/ unmap_from_device
  \/ close_device
  \/ Activate
  \/ Deactivate
  \/ on_active_vt_changed
  \/ FlushHead
  \/ Draw

Spec == Init /\ [][Next]_vars

(***************************************************************************)
(* The palette quantizer on its own: single classifications on an          *)
(* initialized head whose palette already holds the first k colours of     *)
(* the Gradient family, classified in order.                               *)
(***************************************************************************)
\* the palette after the colours Gradient(lo) .. Gradient(hi - 1) have been
\* classified in order, starting from palette h: the first half, then the
\* second (the test has the first half evaluated before the second starts)
RECURSIVE PrefillFrom(_, _, _)
PrefillFrom(h, lo, hi) ==
  IF lo >= hi
  THEN h
  ELSE IF lo + 1 = hi
       THEN argb32_pixel_value_to_color_index(h, Gradient(lo)).head
       ELSE LET mid == lo + ((hi - lo) \div 2)
                left == PrefillFrom(h, lo, mid)
            IN  IF left.palette_size >= 0 THEN PrefillFrom(left, mid, hi) ELSE left

Prefill(k) == PrefillFrom(EmptyPalette, 0, k)

InitQ ==
  /\ device_fd = FdOpened
  /\ terminal_open = TRUE
  /\ terminal_active = TRUE
  /\ watching = TRUE
  /\ is_active = FALSE
  /\ map_address = "MAP_FAILED"
  /\ area = Rect(0, 0, 16, 1)
  /\ row_stride = 2
  /\ size = 2
  /\ pixel_buffer = [i \in 1 .. 16 |-> Black]
  /\ updated_areas = {Rect(0, 0, 16, 1)}
  /\ \E k \in 0 .. MaxPrefill : head = Prefill(k)
  /\ hwlog = << >>
  /\ last_op = "query_device"
  /\ last_ret = TRUE
  /\ proc = "run"
  /\ draws = 0
  /\ q_seen = NoneSeen

\* one call of argb32_pixel_value_to_color_index with its set_palette;
\* q_seen records the index each colour got, and forgets the other colours
\* when a slot is allocated if `forget` is set
ClassifyAndRecord(forget) ==
  /\ \E pixel \in QPixels :
       LET res == argb32_pixel_value_to_color_index(head, pixel)
       IN  /\ head' = res.head
           /\ hwlog' = (IF res.alloc THEN set_palette(device_fd, res.head) ELSE << >>)
                       \o << [op |-> "classify", x |-> 0, y |-> 0, pixel |-> pixel,
                              index |-> res.index, alloc |-> res.alloc,
                              seen |-> q_seen[pixel]] >>
           /\ q_seen' = IF res.alloc /\ forget
                        THEN [NoneSeen EXCEPT ![pixel] = res.index]
                        ELSE [q_seen EXCEPT ![pixel] = res.index]
  /\ last_op' = "classify"
  /\ last_ret' = TRUE
  /\ UNCHANGED << device_fd, terminal_open, terminal_active, watching, is_active,
                  map_address, area, row_stride, size, pixel_buffer, updated_areas,
                  proc, draws >>

Classify == ClassifyAndRecord(TRUE)

\* initialize_head run again on the head: a new session of the palette
InitializeHead ==
  /\ initialize_head(area.width, area.height)
  /\ q_seen' = NoneSeen
  /\ hwlog' = << >>
  /\ last_op' = "initialize_head"
  /\ last_ret' = TRUE
  /\ UNCHANGED << device_fd, terminal_open, terminal_active, watching, is_active,
                  map_address, area, row_stride, size, proc, draws >>

NextQ ==
  \/ Classify
  \/ InitializeHead

SpecQ == InitQ /\ [][NextQ]_vars

\* the same calls, every index a colour got being remembered until
\* initialize_head runs again
ClassifyRemembered == ClassifyAndRecord(FALSE)

NextP ==
  \/ ClassifyRemembered
  \/ InitializeHead

SpecP == InitQ /\ [][NextP]_vars

(***************************************************************************)
(* Vocabulary of the properties                                            *)
(***************************************************************************)
LastEvent == hwlog[Len(hwlog)]

RedOf(pixel) == (pixel \div 65536) % 256
GreenOf(pixel) == (pixel \div 256) % 256
BlueOf(pixel) == pixel % 256

\* slot i of palette h and the colour agree on the top `keep` bits of
\* every channel (keep = 2: precision 6, keep = 1: precision 7)
Agrees(h, i, pixel, keep) ==
  LET top8 == IF keep = 2 THEN 64 ELSE 128
      top16 == IF keep = 2 THEN 16384 ELSE 32768
  IN  /\ h.red[i] \div top16 = RedOf(pixel) \div top8
      /\ h.green[i] \div top16 = GreenOf(pixel) \div top8
      /\ h.blue[i] \div top16 = BlueOf(pixel) \div top8

AgreeingSlots(h, pixel, keep) ==
  {i \in 0 .. (h.palette_size - 1) : Agrees(h, i, pixel, keep)}

\* no two slots of palette h agree on the top two bits of every channel
PairwiseDistinctBuckets(h) ==
  \A i, j \in 0 .. (h.palette_size - 1) :
    (/\ h.red[i] \div 16384 = h.red[j] \div 16384
     /\ h.green[i] \div 16384 = h.green[j] \div 16384
     /\ h.blue[i] \div 16384 = h.blue[j] \div 16384) => i = j

OpsOf(log, kind) == {i \in 1 .. Len(log) : log[i].op = kind}

(***************************************************************************)
(* C1.  On an initialized head the palette never holds more than 16 slots, *)
(* and no classification lowers palette_size: it only drops when           *)
(* initialize_head starts a new session.                                   *)
(***************************************************************************)
C1_PaletteCardinality ==
  /\ head.palette_size <= 16
  /\ [][/\ head'.palette_size <= 16
        /\ last_op' = "classify" => head'.palette_size >= head.palette_size]_vars

\* the sixteenth slot has just been allocated
C1_Witness ==
  /\ last_op = "classify"
  /\ LastEvent.alloc
  /\ LastEvent.index = 15
  /\ head.palette_size = 16

(***************************************************************************)
(* C5.  A colour classified again, no slot having been allocated since     *)
(* its previous classification (which may itself have allocated, or have   *)
(* fallen back on a full palette), gets the index it got then.             *)
(***************************************************************************)
C5_StableIndex ==
  (last_op = "classify" /\ LastEvent.seen # -1) => LastEvent.index = LastEvent.seen

\* the full-palette fallback, returned a second time
C5_Witness ==
  /\ last_op = "classify"
  /\ LastEvent.pixel = Blue
  /\ LastEvent.seen = 15
  /\ LastEvent.index = 15
  /\ AgreeingSlots(head, Blue, 1) = {}

\* a slot allocated by the previous classification, found again
C5_WitnessAllocated ==
  /\ last_op = "classify"
  /\ LastEvent.seen # -1
  /\ ~LastEvent.alloc
  /\ head.palette_size = LastEvent.index + 1

(***************************************************************************)
(* C6.  On a palette of 16 entries, a colour that no slot agrees with on   *)
(* the top two bits nor on the top bit of every channel allocates          *)
(* nothing, leaves the palette as it is, uploads no colour map and gets    *)
(* index 15.                                                               *)
(***************************************************************************)
C6_FullPaletteFallback ==
  [][(/\ last_op' = "classify"
      /\ head.palette_size = 16
      /\ AgreeingSlots(head, LastEvent'.pixel, 2) = {}
      /\ AgreeingSlots(head, LastEvent'.pixel, 1) = {})
     => (/\ ~LastEvent'.alloc
         /\ head' = head
         /\ OpsOf(hwlog', "cmap") = {}
         /\ LastEvent'.index = 15)]_vars

C6_Witness ==
  /\ last_op = "classify"
  /\ head.palette_size = 16
  /\ LastEvent.pixel = Blue
  /\ LastEvent.seen = -1
  /\ AgreeingSlots(head, Blue, 2) = {}
  /\ AgreeingSlots(head, Blue, 1) = {}
  /\ LastEvent.index = 15

(***************************************************************************)
(* C7.  With a free slot, a colour that no slot agrees with on the top two *)
(* bits gets a new slot, at index palette_size, holding its channels       *)
(* shifted left by 8; the slots already there are kept.  A colour some     *)
(* slot agrees with on the top two bits gets the lowest such slot and      *)
(* allocates nothing: a colour near an earlier one reuses its slot.        *)
(***************************************************************************)
C7_CoarseFirst ==
  [][last_op' = "classify" =>
       LET e == LastEvent'
           near == AgreeingSlots(head, e.pixel, 2)
       IN  /\ (near = {} /\ head.palette_size < 16) =>
                 /\ e.alloc
                 /\ e.index = head.palette_size
                 /\ head'.palette_size = head.palette_size + 1
                 /\ head'.red[e.index] = RedOf(e.pixel) * 256
                 /\ head'.green[e.index] = GreenOf(e.pixel) * 256
                 /\ head'.blue[e.index] = BlueOf(e.pixel) * 256
                 /\ \A i \in 0 .. (head.palette_size - 1) :
                      /\ head'.red[i] = head.red[i]
                      /\ head'.green[i] = head.green[i]
                      /\ head'.blue[i] = head.blue[i]
           /\ near # {} =>
                 /\ ~e.alloc
                 /\ e.index = Min(near)
                 /\ head' = head]_vars

\* NearBlack, classified for the first time, reuses the slot of Black
C7_Witness ==
  /\ last_op = "classify"
  /\ LastEvent.pixel = NearBlack
  /\ LastEvent.seen = -1
  /\ LastEvent.index = 0
  /\ ~LastEvent.alloc
  /\ head.red[0] = 0 /\ head.green[0] = 0 /\ head.blue[0] = 0
  /\ head.palette_size \in 1 .. 15

(***************************************************************************)
(* Vocabulary of the properties about a flush: hwlog holds what the last   *)
(* entry point did, in the order it did it.                                *)
(***************************************************************************)
Stores(log) == OpsOf(log, "store")

\* stores attempted: the ones carried out and the one that faulted
StoreAttempts(log) == OpsOf(log, "store") \cup OpsOf(log, "fault")

\* the register writes of the baseline and of the store loops
RegisterWrites(log) ==
  {i \in 1 .. Len(log) :
     log[i].op \in {"enable_set_reset", "mode", "data_rotate", "map_mask",
                    "set_reset", "bit_mask"}}

\* the last entry point has called activate
Activated ==
  \/ last_op = "activate"
  \/ last_op = "on_active_vt_changed" /\ terminal_active
  \/ last_op = "map_to_device" /\ last_ret /\ terminal_active

\* pixel (x, y) was classified and a store of its slot carries its bit
Painted(log, x, y) ==
  \E i \in OpsOf(log, "classify"), j \in Stores(log) :
    /\ log[i].x = x /\ log[i].y = y
    /\ i < j
    /\ log[j].y = y /\ log[j].b = x \div 8
    /\ log[j].c = log[i].index
    /\ HasBit(log[j].mask, PixelBit(x))
    /\ log[j].mapped /\ log[j].inside

\* the whole head area was marked damaged before the first hardware
\* access of the flush, the flush ran, and once it has returned every
\* pixel of the head area is painted and no damage is left
FullRepaint ==
  /\ OpsOf(hwlog, "enable_set_reset") # {}
  /\ \E i \in OpsOf(hwlog, "add_rectangle") :
       /\ hwlog[i].rect = area
       /\ \A j \in RegisterWrites(hwlog) \cup StoreAttempts(hwlog)
                   \cup OpsOf(hwlog, "classify") : i < j
  /\ proc = "run" =>
       /\ \A x \in 0 .. (area.width - 1), y \in 0 .. (area.height - 1) :
            Painted(hwlog, x, y)
       /\ updated_areas = {}

(***************************************************************************)
(* C2.  A flush_head entered while is_active is false returns at once:     *)
(* it touches no register, uploads no colour map, stores nothing, and      *)
(* leaves the damaged region and the palette as they were.                 *)
(***************************************************************************)
C2_InactiveFlushIsNoop ==
  [][(last_op' = "flush_head" /\ ~is_active) =>
       /\ hwlog' = << >>
       /\ updated_areas' = updated_areas
       /\ head' = head
       /\ proc' = proc]_vars

\* a flush of pending damage on a mapped, deactivated head did nothing
C2_Witness ==
  /\ last_op = "flush_head"
  /\ ~is_active
  /\ IsMapped
  /\ updated_areas # {}
  /\ updated_areas # {area}
  /\ hwlog = << >>

(***************************************************************************)
(* C3.  A flush_head that runs while is_active is true and returns leaves  *)
(* the damaged region empty, and a flush_head that starts on an empty      *)
(* damaged region attempts no store: so a second flush right after the     *)
(* first stores nothing.                                                   *)
(***************************************************************************)
C3_DamageConsumed ==
  [][/\ (last_op' = "flush_head" /\ is_active /\ proc' = "run")
          => updated_areas' = {}
     /\ (last_op' = "flush_head" /\ updated_areas = {})
          => StoreAttempts(hwlog') = {}
     /\ (last_op' = "flush_head" /\ last_op = "flush_head" /\ is_active)
          => StoreAttempts(hwlog') = {}]_vars

\* the second flush of an active head: the baseline, and no store
C3_Witness ==
  /\ last_op = "flush_head"
  /\ is_active
  /\ IsMapped
  /\ draws > 0
  /\ OpsOf(hwlog, "enable_set_reset") # {}
  /\ StoreAttempts(hwlog) = {}
  /\ updated_areas = {}

(***************************************************************************)
(* C4.  As stated: every call of activate (made directly, by the VT-change *)
(* callback or by map_to_device) on a head that holds a pixel buffer marks *)
(* the whole head area damaged before the flush and paints every pixel of  *)
(* the head.                                                               *)
(***************************************************************************)
C4_EveryActivationRepaints ==
  (Activated /\ pixel_buffer # NullBuffer) => FullRepaint

(***************************************************************************)
(* C4, amended.  An activate that runs while the device memory is mapped   *)
(* and the head holds a pixel buffer marks the whole head area damaged     *)
(* before the first hardware access of the flush, and the flush, once it   *)
(* has returned, has painted every pixel of the head area, whatever the    *)
(* damaged region was.  An activate that runs while the memory is not      *)
(* mapped sets the flag and nothing else.                                  *)
(***************************************************************************)
C4_MappedActivationRepaints ==
  /\ (Activated /\ IsMapped /\ pixel_buffer # NullBuffer) => FullRepaint
  /\ (Activated /\ ~IsMapped) => (is_active /\ hwlog = << >>)

\* the VT comes back to a head with partial damage: full repaint
C4_Witness ==
  /\ last_op = "on_active_vt_changed"
  /\ terminal_active
  /\ IsMapped
  /\ proc = "run"
  /\ \E i \in OpsOf(hwlog, "add_rectangle") :
       /\ hwlog[i].before # {}
       /\ area \notin hwlog[i].before
  /\ FullRepaint

(***************************************************************************)
(* C8.  In a flush that has returned: every classified pixel (x, y) is     *)
(* covered by exactly one store of its row, the store of its slot at byte  *)
(* x / 8 whose bit mask holds bit 0x80 >> (x mod 8); the bit masks stored  *)
(* to one byte of one row for different slots are pairwise disjoint; no    *)
(* store carries a zero bit mask; and on a 16x1 head whose 16 columns      *)
(* fall into 16 different slots, each slot gets exactly one store, of the  *)
(* one bit of its column.                                                  *)
(***************************************************************************)
C8_OneStorePerPixel ==
  proc = "run" =>
    LET pixels == OpsOf(hwlog, "classify")
        stores == Stores(hwlog)
        Covering(i) ==
          {j \in stores : /\ hwlog[j].y = hwlog[i].y
                          /\ hwlog[j].b = hwlog[i].x \div 8
                          /\ HasBit(hwlog[j].mask, PixelBit(hwlog[i].x))}
    IN  /\ \A i \in pixels :
             /\ Cardinality(Covering(i)) = 1
             /\ \A j \in Covering(i) : hwlog[j].c = hwlog[i].index
        /\ \A j, k \in stores :
             (/\ hwlog[j].y = hwlog[k].y
              /\ hwlog[j].b = hwlog[k].b
              /\ hwlog[j].c # hwlog[k].c)
             => \A bit \in {Pow2(n) : n \in 0 .. 7} :
                  ~(HasBit(hwlog[j].mask, bit) /\ HasBit(hwlog[k].mask, bit))
        /\ \A j \in stores : hwlog[j].mask # 0
        /\ (/\ area = Rect(0, 0, 16, 1)
            /\ Cardinality({hwlog[i].x : i \in pixels}) = 16
            /\ Cardinality({hwlog[i].index : i \in pixels}) = 16)
           => \A i \in pixels :
                LET mine == {j \in stores : hwlog[j].c = hwlog[i].index}
                IN  /\ Cardinality(mine) = 1
                    /\ \A j \in mine : /\ hwlog[j].b = hwlog[i].x \div 8
                                       /\ hwlog[j].mask = PixelBit(hwlog[i].x)

(***************************************************************************)
(* C9.  A flush_head that runs while is_active is true issues the          *)
(* baseline; wherever the log of an entry point holds a register write or  *)
(* a store, the baseline enable_set_reset (15), mode (0), data_rotate (0), *)
(* map_mask (255) stands in it once, in this order, before every other     *)
(* register write and every store; every store comes right after           *)
(* set_reset (c) and then bit_mask (m) of its own slot c and mask m, with  *)
(* m in 1 .. 255, and ORs a nonzero value into its byte; and every         *)
(* set_reset is followed by its bit_mask and then by the store.            *)
(***************************************************************************)
C9_RegisterOrder ==
  LET n == Len(hwlog)
      IsReg(i, name, v) == hwlog[i].op = name /\ hwlog[i].value = v
  IN  /\ (last_op = "flush_head" /\ is_active) => OpsOf(hwlog, "enable_set_reset") # {}
      /\ (RegisterWrites(hwlog) \cup Stores(hwlog) # {}) =>
           \E i \in 1 .. n :
             /\ i + 3 <= n
             /\ IsReg(i, "enable_set_reset", 15)
             /\ IsReg(i + 1, "mode", 0)
             /\ IsReg(i + 2, "data_rotate", 0)
             /\ IsReg(i + 3, "map_mask", 255)
             /\ \A j \in (RegisterWrites(hwlog) \cup Stores(hwlog)) \ (i .. (i + 3)) :
                  /\ j > i + 3
                  /\ hwlog[j].op \in {"set_reset", "bit_mask", "store"}
      /\ \A j \in Stores(hwlog) :
           /\ j > 2
           /\ IsReg(j - 2, "set_reset", hwlog[j].c)
           /\ IsReg(j - 1, "bit_mask", hwlog[j].mask)
           /\ hwlog[j].mask \in 1 .. 255
           /\ hwlog[j].or_value # 0
      /\ \A j \in OpsOf(hwlog, "set_reset") :
           /\ j + 2 <= n
           /\ hwlog[j + 1].op = "bit_mask"
           /\ hwlog[j + 2].op \in {"store", "fault"}

\* a flush that has stored for two slots at least
C9_Witness ==
  /\ last_op = "flush_head"
  /\ is_active
  /\ IsMapped
  /\ proc = "run"
  /\ Cardinality({hwlog[j].c : j \in Stores(hwlog)}) >= 2

(***************************************************************************)
(* C10.  As stated: whatever the entry points called so far, no store to   *)
(* the device memory is attempted while map_address is MAP_FAILED.         *)
(***************************************************************************)
C10_StoresOnlyWhileMapped ==
  \A j \in StoreAttempts(hwlog) : hwlog[j].mapped

(***************************************************************************)
(* C10, amended.  The stores of activate, called directly, by the          *)
(* VT-change callback or by map_to_device, are made only while the memory  *)
(* is mapped, and the entry points other than flush_head and these make no *)
(* store at all.  flush_head does not look at map_address: its stores go   *)
(* through whatever map_address holds when it is called.                   *)
(***************************************************************************)
C10_ActivationStoresMapped ==
  /\ last_op # "flush_head" => \A j \in StoreAttempts(hwlog) : hwlog[j].mapped
  /\ last_op \notin {"flush_head", "activate", "on_active_vt_changed", "map_to_device"}
       => StoreAttempts(hwlog) = {}
  /\ last_op = "flush_head" => \A j \in StoreAttempts(hwlog) : hwlog[j].mapped = IsMapped

\* the VT comes back before the damaged head is mapped: nothing is stored
C10_Witness ==
  /\ last_op = "on_active_vt_changed"
  /\ terminal_active
  /\ is_active
  /\ ~IsMapped
  /\ pixel_buffer # NullBuffer
  /\ updated_areas # {}
  /\ hwlog = << >>

(***************************************************************************)
(* C11.  While the memory is mapped, a flush reads no mask byte at or past *)
(* index 16 * row_stride; every store attempted lands below the mapped     *)
(* size height * row_stride; every store has byte offset b < row_stride;   *)
(* and every bit of the bit mask of a store is the bit of a pixel of that  *)
(* row and byte that the flush classified to the slot of the store.        *)
(***************************************************************************)
C11_StoresInsideRectangle ==
  /\ OpsOf(hwlog, "read_past_mask") = {}
  /\ \A j \in StoreAttempts(hwlog) :
       hwlog[j].mapped => hwlog[j].offset < size
  /\ \A j \in Stores(hwlog) :
       hwlog[j].mapped =>
         /\ hwlog[j].b < row_stride
         /\ \A bit \in {Pow2(n) : n \in 0 .. 7} :
              HasBit(hwlog[j].mask, bit) =>
                \E i \in OpsOf(hwlog, "classify") :
                  /\ hwlog[i].y = hwlog[j].y
                  /\ hwlog[i].x \div 8 = hwlog[j].b
                  /\ PixelBit(hwlog[i].x) = bit
                  /\ hwlog[i].index = hwlog[j].c

(***************************************************************************)
(* C12.  As stated: is_active is false when the backend is created, and a  *)
(* step that changes it is a VT-change notification.                       *)
(***************************************************************************)
C12_OnlyVtChangeWritesFlag ==
  /\ last_op = "create_backend" => ~is_active
  /\ [][is_active' # is_active => last_op' = "on_active_vt_changed"]_vars

(***************************************************************************)
(* C12, amended.  is_active is false when the backend is created.  It is   *)
(* set by activate, which runs on the interface's activate entry, on a     *)
(* VT-change notification that finds the console active, and in a          *)
(* map_to_device that succeeds on an active console; it is cleared by      *)
(* deactivate, which runs on the interface's deactivate entry and on a     *)
(* VT-change notification that finds the console not active.  open_device, *)
(* query_device, unmap_from_device, close_device, flush_head, a            *)
(* map_to_device that fails or finds the console not active, and a client  *)
(* drawing into the buffer leave it as it is.                              *)
(***************************************************************************)
C12_ActivationFlagWriters ==
  /\ last_op = "create_backend" => ~is_active
  /\ [][/\ last_op' \in {"open_device", "query_device", "unmap_from_device",
                         "close_device", "flush_head", "draw"}
             => is_active' = is_active
        /\ last_op' = "map_to_device"
             => is_active' = IF last_ret' /\ terminal_active THEN TRUE ELSE is_active
        /\ last_op' = "on_active_vt_changed" => is_active' = terminal_active'
        /\ last_op' = "activate" => is_active'
        /\ last_op' = "deactivate" => ~is_active']_vars

\* a map_to_device on the active console has activated the backend and
\* repainted, no notification having been delivered since the flag was
\* cleared or created
C12_Witness ==
  /\ last_op = "map_to_device"
  /\ last_ret
  /\ terminal_active
  /\ is_active
  /\ OpsOf(hwlog, "add_rectangle") # {}

(***************************************************************************)
(* C13.  A map_to_device on a head that holds its pixel buffer returns     *)
(* true exactly when ioperm and then mmap have succeeded, and then the     *)
(* memory is mapped.  On success with the console active the backend is    *)
(* active and, once the call has returned, the whole head area has been    *)
(* repainted and no damage is left; on success with the console not        *)
(* active no register is written, nothing is stored or uploaded, the       *)
(* console switch is requested and flag, damage and palette are left as    *)
(* they were.  On failure the memory is not mapped, is_active is left as   *)
(* it was (a backend that was inactive stays inactive), and nothing is     *)
(* written, stored or flushed.                                             *)
(***************************************************************************)
C13_MapToDevice ==
  [][(last_op' = "map_to_device" /\ pixel_buffer # NullBuffer) =>
       LET granted == \E i \in OpsOf(hwlog', "ioperm") : hwlog'[i].ok
           mapped == \E i \in OpsOf(hwlog', "mmap") : hwlog'[i].ok
           Quiet == /\ RegisterWrites(hwlog') = {}
                    /\ StoreAttempts(hwlog') = {}
                    /\ OpsOf(hwlog', "cmap") = {}
                    /\ OpsOf(hwlog', "classify") = {}
                    /\ is_active' = is_active
                    /\ updated_areas' = updated_areas
                    /\ head' = head
       IN  /\ last_ret' = (granted /\ mapped)
           /\ ~granted => OpsOf(hwlog', "mmap") = {}
           /\ last_ret' = (map_address' # "MAP_FAILED")
           /\ (last_ret' /\ terminal_active) => (is_active' /\ FullRepaint')
           /\ (last_ret' /\ ~terminal_active) =>
                (Quiet /\ OpsOf(hwlog', "activate_vt") # {})
           /\ ~last_ret' => (Quiet /\ OpsOf(hwlog', "activate_vt") = {})]_vars

\* mapped on a console that is not the active one: the switch is requested
\* and the pending damage is kept
C13_Witness ==
  /\ last_op = "map_to_device"
  /\ last_ret
  /\ ~terminal_active
  /\ ~is_active
  /\ IsMapped
  /\ updated_areas # {}
  /\ OpsOf(hwlog, "activate_vt") # {}
  /\ RegisterWrites(hwlog) = {}

\* the mapping refused after the I/O ports were granted
C13_WitnessFailure ==
  /\ last_op = "map_to_device"
  /\ ~last_ret
  /\ ~IsMapped
  /\ \E i \in OpsOf(hwlog, "mmap") : ~hwlog[i].ok

(***************************************************************************)
(* C14.  An open_device that has returned false leaves no device           *)
(* descriptor open, no console open and no VT-change watch registered.     *)
(***************************************************************************)
C14_FailedOpenReleasesAll ==
  (last_op = "open_device" /\ ~last_ret) =>
    /\ device_fd < 0
    /\ ~terminal_open
    /\ ~watching

\* entry i of the log is an upload of the whole of palette h through fd
UploadsAll(log, i, fd, h) ==
  /\ i <= Len(log)
  /\ log[i].op = "cmap"
  /\ log[i].fd = fd
  /\ log[i].start = 0
  /\ log[i].len = h.palette_size
  /\ log[i].red = h.red /\ log[i].green = h.green /\ log[i].blue = h.blue

(***************************************************************************)
(* C15.  Every flush that runs while is_active is true issues the          *)
(* baseline, and the baseline is followed at once, before any store, by    *)
(* an upload of the colour map from index 0 through the open descriptor:   *)
(* when the palette holds an entry it is the upload of flush_head, of      *)
(* entries 0 .. palette_size - 1 as they stand when the flush starts,      *)
(* whatever the damage; when the palette is empty, set_palette returns     *)
(* early and the upload is the one of the first allocation, of the one     *)
(* entry the palette then holds.                                           *)
(***************************************************************************)
C15_UploadOnEveryActiveFlush ==
  [][/\ (last_op' = "flush_head" /\ is_active) => OpsOf(hwlog', "map_mask") # {}
     /\ \A i \in OpsOf(hwlog', "map_mask") :
          /\ i + 1 <= Len(hwlog')
          /\ hwlog'[i + 1].op = "cmap"
          /\ hwlog'[i + 1].start = 0
          /\ hwlog'[i + 1].fd = device_fd
          /\ \A j \in StoreAttempts(hwlog') : i + 1 < j
          /\ IF head.palette_size > 0
             THEN /\ UploadsAll(hwlog', i + 1, device_fd, head)
                  /\ \A j \in OpsOf(hwlog', "classify") : i + 1 < j
             ELSE hwlog'[i + 1].len = 1]_vars

\* a flush of an active head with a palette of two entries at least and no
\* damage: the baseline, the upload, and nothing else
C15_Witness ==
  /\ last_op = "flush_head"
  /\ is_active
  /\ head.palette_size >= 2
  /\ Stores(hwlog) = {}
  /\ \E i \in OpsOf(hwlog, "map_mask") :
       /\ UploadsAll(hwlog, i + 1, device_fd, head)
       /\ Len(hwlog) = i + 1

\* the last upload of the colour map before entry j of the log; 0: none
LastUpload(log, j) ==
  LET before == {k \in OpsOf(log, "cmap") : k < j}
  IN  IF before = {} THEN 0 ELSE CHOOSE k \in before : \A m \in before : m <= k

(***************************************************************************)
(* C16.  With the descriptor open: every classification that allocates a   *)
(* slot is preceded in the log, with nothing in between, by an upload of   *)
(* entries 0 .. palette_size - 1 that holds the new slot; and at every     *)
(* store made for slot c, the last upload before it covers entry c with    *)
(* the channels that entry c of the software palette holds.                *)
(***************************************************************************)
C16_PaletteInSync ==
  device_fd >= 0 =>
    /\ \A i \in OpsOf(hwlog, "classify") :
         hwlog[i].alloc =>
           /\ i > 1
           /\ hwlog[i - 1].op = "cmap"
           /\ hwlog[i - 1].start = 0
           /\ hwlog[i - 1].len = hwlog[i].index + 1
           /\ hwlog[i - 1].red[hwlog[i].index] = RedOf(hwlog[i].pixel) * 256
           /\ hwlog[i - 1].green[hwlog[i].index] = GreenOf(hwlog[i].pixel) * 256
           /\ hwlog[i - 1].blue[hwlog[i].index] = BlueOf(hwlog[i].pixel) * 256
    /\ \A j \in Stores(hwlog) :
         LET k == LastUpload(hwlog, j)
             c == hwlog[j].c
         IN  /\ k > 0
             /\ hwlog[k].start = 0
             /\ c < hwlog[k].len
             /\ hwlog[k].red[c] = head.red[c]
             /\ hwlog[k].green[c] = head.green[c]
             /\ hwlog[k].blue[c] = head.blue[c]

(***************************************************************************)
(* C17.  A classification either leaves the whole palette as it is, or,    *)
(* and only when palette_size < 16, writes the entry at index palette_size *)
(* (the 8-bit channels of the colour shifted left by 8), adds one to       *)
(* palette_size, and leaves every other entry, slot 0 included, as it is.  *)
(***************************************************************************)
C17_AppendOnly ==
  [][last_op' = "classify" =>
       \/ head' = head
       \/ LET n == head.palette_size
              pixel == LastEvent'.pixel
          IN  /\ n < 16
              /\ head'.palette_size = n + 1
              /\ head'.red = [head.red EXCEPT ![n] = RedOf(pixel) * 256]
              /\ head'.green = [head.green EXCEPT ![n] = GreenOf(pixel) * 256]
              /\ head'.blue = [head.blue EXCEPT ![n] = BlueOf(pixel) * 256]]_vars

\* Blue has been appended as the sixth entry, behind the first five
\* colours of the gradient, which are as they were
C17_Witness ==
  /\ last_op = "classify"
  /\ LastEvent.alloc
  /\ LastEvent.pixel = Blue
  /\ LastEvent.index = 5
  /\ head.palette_size = 6
  /\ head.blue[5] = 255 * 256
  /\ \A i \in 0 .. 4 : head.red[i] = RedOf(Gradient(i)) * 256

(***************************************************************************)
(* C18.  A colour classified again on the same head, whatever was          *)
(* classified and allocated since its first classification, also when the  *)
(* palette has become full in between, gets the index it got then.         *)
(***************************************************************************)
C18_PermanentSlot ==
  /\ (last_op = "classify" /\ LastEvent.seen # -1) => LastEvent.index = LastEvent.seen
  /\ [][(last_op' = "classify" /\ q_seen[LastEvent'.pixel] # -1)
          => LastEvent'.index = q_seen[LastEvent'.pixel]]_vars

\* Blue got slot 13 of a palette that was not full; two slots have been
\* allocated since, the palette is full, and Blue gets slot 13 again
C18_Witness ==
  /\ last_op = "classify"
  /\ LastEvent.pixel = Blue
  /\ LastEvent.seen = 13
  /\ LastEvent.index = 13
  /\ head.blue[13] = 255 * 256
  /\ head.palette_size = 16
  /\ q_seen[Gradient(15)] = 14
  /\ q_seen[Gradient(16)] = 15

(***************************************************************************)
(* C19.  Every classification returns an index i with                      *)
(* 0 <= i < palette_size <= 16, palette_size being read after the call:    *)
(* the palette holds at least one slot after any classification, so the    *)
(* fallback palette_size - 1 is never taken on an empty palette.  Hence    *)
(* the mask byte i * row_stride + x / 8 lies inside the buffer of 16       *)
(* planes for every column x < 8 * row_stride.                             *)
(***************************************************************************)
C19_IndexInRange ==
  last_op = "classify" =>
    /\ 0 <= LastEvent.index
    /\ LastEvent.index < head.palette_size
    /\ head.palette_size >= 1
    /\ head.palette_size <= 16
    /\ \A g \in Geometries : \A x \in 0 .. (8 * g.rs - 1) :
         MaskIndex(g, LastEvent.index, x) \in DOMAIN ZeroMask(g)

\* the fallback on a full palette: the last slot, whose plane ends the mask
C19_Witness ==
  /\ last_op = "classify"
  /\ ~LastEvent.alloc
  /\ AgreeingSlots(head, LastEvent.pixel, 1) = {}
  /\ LastEvent.index = head.palette_size - 1
  /\ MaskIndex([rs |-> row_stride], LastEvent.index, 8 * row_stride - 1)
       = MaskLen([rs |-> row_stride]) - 1

\* the first classification on an empty palette allocates slot 0
C19_WitnessEmpty ==
  /\ last_op = "classify"
  /\ LastEvent.alloc
  /\ LastEvent.index = 0
  /\ head.palette_size = 1

(***************************************************************************)
(* C20.  No two allocated slots agree on the top two bits of all three     *)
(* channels: the slots lie in pairwise distinct precision-6 buckets.  A    *)
(* slot is allocated only when no slot agreed with the colour on the top   *)
(* two bits and the palette had room; a classification that goes on to     *)
(* the precision-7 pass (no such slot, nothing allocated) finds the        *)
(* palette full and leaves it as it was, so that pass allocates nothing.   *)
(***************************************************************************)
C20_DistinctBuckets ==
  /\ PairwiseDistinctBuckets(head)
  /\ [][/\ PairwiseDistinctBuckets(head')
        /\ last_op' = "classify" =>
              LET e == LastEvent'
                  near == AgreeingSlots(head, e.pixel, 2)
              IN  /\ e.alloc => (near = {} /\ head.palette_size < 16)
                  /\ (near = {} /\ ~e.alloc) =>
                        /\ head.palette_size = 16
                        /\ head' = head
                        /\ e.index \in AgreeingSlots(head, e.pixel, 1) \cup {15}]_vars

\* Blue has just been given a slot beside earlier ones, and it is the only
\* slot of its bucket
C20_Witness ==
  /\ last_op = "classify"
  /\ LastEvent.alloc
  /\ LastEvent.pixel = Blue
  /\ LastEvent.index \in 1 .. 15
  /\ AgreeingSlots(head, Blue, 2) = {LastEvent.index}
  /\ AgreeingSlots(head, NearBlack, 2) = {0}

\* the precision-7 pass taken on a full palette, and a slot found by it
C20_WitnessCoarsePass ==
  /\ last_op = "classify"
  /\ ~LastEvent.alloc
  /\ head.palette_size = 16
  /\ AgreeingSlots(head, LastEvent.pixel, 2) = {}
  /\ LastEvent.index \in AgreeingSlots(head, LastEvent.pixel, 1)

====
